---- MODULE Spec2Model ----
(***************************************************************************)
(* Model of qbraid_qir/cirq/elements.py: generate_module_id, the circuit   *)
(* elements _Register and _Operation, and CirqModule (constructor,         *)
(* from_circuit, accept).                                                  *)
(*                                                                         *)
(* Text is a sequence of one-character strings.  A Python object is a      *)
(* record; the set of attributes an instance really has (its __dict__) is  *)
(* the field attrs, so that reading an attribute that was never assigned   *)
(* is an AttributeError and not a value.                                   *)
(***************************************************************************)
EXTENDS Integers, Sequences, FiniteSets, TLC

\* ------------------------------------------------------------------ bounds

\* Largest number of operations of an input circuit.
MaxOps == 2

\* The two conversions a host runs, each on its own circuit object.
Convs == {1, 2}

\* ------------------------------------------------------- external values

\* cirq.Operation: a gate on target qubits.  The gate "U" is a custom gate
\* whose JSON serialization cirq does not support.
Op(g, qs) == [gate |-> g, qubits |-> qs]
NoOp == Op("", <<>>)
OpsUniverse == {Op("H", <<0>>), Op("CX", <<0, 1>>), Op("U", <<1>>)}

RECURSIVE SeqsUpTo(_, _)
SeqsUpTo(S, n) ==
    IF n = 0 THEN {<<>>}
    ELSE LET shorter == SeqsUpTo(S, n - 1)
         IN  shorter \cup {Append(s, x) : s \in {t \in shorter : Len(t) = n - 1}, x \in S}

\* The operation lists of the input circuits.
Circuits == SeqsUpTo(OpsUniverse, MaxOps)

\* The Bell circuit of the test fixtures.
Bell == <<Op("H", <<0>>), Op("CX", <<0, 1>>)>>

\* The value a caller passes as circuit: a cirq.Circuit with its operations,
\* or None (as in test_cirq_to_qir_type_error).
CircuitValue(k, ops) == [id |-> k, kind |-> "Circuit", ops |-> ops]
NoneValue(k) == [id |-> k, kind |-> "None", ops |-> <<>>]

Range(s) == {s[i] : i \in DOMAIN s}

\* cirq.Circuit.all_operations(): the operations in circuit order.
all_operations(c) == c.ops

\* cirq.Circuit.all_qubits(): the set of qubits any operation acts on.
all_qubits(c) == UNION {Range(c.ops[i].qubits) : i \in DOMAIN c.ops}

\* ------------------------------------------------------ generate_module_id

Digits == <<"0", "1", "2", "3", "4", "5", "6", "7", "8", "9">>
HexDigits == Digits \o <<"a", "b", "c", "d", "e", "f">>
Lower == <<"a", "b", "c", "d", "e", "f", "g", "h", "i", "j", "k", "l", "m",
           "n", "o", "p", "q", "r", "s", "t", "u", "v", "w", "x", "y", "z">>
Upper == <<"A", "B", "C", "D", "E", "F", "G", "H", "I", "J", "K", "L", "M",
           "N", "O", "P", "Q", "R", "S", "T", "U", "V", "W", "X", "Y", "Z">>
Punct == <<"[", "]", "(", ")", ",", "-", "\"", ":", "{", "}", " ", "_">>
Alphabet == Digits \o Lower \o Upper \o Punct

\* str.isalnum on one character.
AlnumChars == Range(Digits) \cup Range(Lower) \cup Range(Upper)
isalnum(ch) == ch \in AlnumChars

\* Code point of a character (its position in Alphabet).
CodePoints == [ch \in Range(Alphabet) |-> CHOOSE i \in DOMAIN Alphabet : Alphabet[i] = ch]
Ord(ch) == CodePoints[ch]

\* Whether cirq.to_json can serialize the circuit: every gate is supported.
Serializable(c) == \A i \in DOMAIN c.ops : c.ops[i].gate # "U"

GateText(g) == IF g = "H" THEN <<"H">> ELSE IF g = "CX" THEN <<"C", "X">> ELSE <<"U">>

RECURSIVE QubitsText(_)
QubitsText(qs) ==
    IF qs = <<>> THEN <<>>
    ELSE <<Digits[Head(qs) + 1]>> \o (IF Len(qs) > 1 THEN <<",">> ELSE <<>>)
         \o QubitsText(Tail(qs))

OpText(o) == GateText(o.gate) \o <<"(">> \o QubitsText(o.qubits) \o <<")">>

RECURSIVE OpsText(_)
OpsText(ops) ==
    IF ops = <<>> THEN <<>>
    ELSE OpText(Head(ops)) \o (IF Len(ops) > 1 THEN <<",">> ELSE <<>>)
         \o OpsText(Tail(ops))

\* A to_json that also writes the object's identity, as a default repr does.
to_json_identity(c) ==
    IF c.kind = "None" THEN <<"n", "u", "l", "l">>
    ELSE <<"[">> \o OpsText(c.ops) \o <<"]", Digits[c.id + 1]>>

\* cirq.to_json(circuit): the canonical text of the circuit's content (the
\* JSON text of None is null).
to_json(c) ==
    IF c.kind = "None" THEN <<"n", "u", "l", "l">>
    ELSE <<"[">> \o OpsText(c.ops) \o <<"]">>

\* hashlib.sha256 stands for a fixed function from text to DigestSize bytes;
\* the model folds the text into a word and expands the word into the bytes.
DigestSize == 32

RECURSIVE Absorb(_, _)
Absorb(h, text) ==
    IF text = <<>> THEN h
    ELSE Absorb((h * 31 + Ord(Head(text))) % 65521, Tail(text))

sha256(text) ==
    LET h == Absorb(7, text)
    IN  [i \in 1..DigestSize |->
            ((h + 97 * i) * (2 * i + 1) + (h \div 256) * (i + 2)) % 256]

\* hash_object.hexdigest(): two lowercase hex digits per byte, high digit first.
hexdigest(bytes) ==
    [i \in 1..(2 * Len(bytes)) |->
        IF i % 2 = 1 THEN HexDigits[(bytes[(i + 1) \div 2] \div 16) + 1]
        ELSE HexDigits[(bytes[i \div 2] % 16) + 1]]

\* "".join(filter(str.isalnum, hash_hex))
FilterAlnum(text) == SelectSeq(text, isalnum)

\* text[:n]
Prefix(text, n) == SubSeq(text, 1, IF n < Len(text) THEN n ELSE Len(text))

TruncLen == 7
IdPrefix == <<"c", "i", "r", "c", "u", "i", "t", "-">>

hash_hex(c) == hexdigest(sha256(to_json(c)))

\* A truncation that is off by one.
generate_module_id_long(c) == IdPrefix \o Prefix(FilterAlnum(hash_hex(c)), TruncLen + 1)

generate_module_id(c) == IdPrefix \o Prefix(FilterAlnum(hash_hex(c)), TruncLen)

\* A generate_module_id that names the circuit by a fixed ID when cirq.to_json
\* fails.
IdOutcomeFallback(c) ==
    [ok |-> TRUE, error |-> "none",
     value |-> IF Serializable(c) THEN generate_module_id(c)
               ELSE IdPrefix \o <<"0", "0", "0", "0", "0", "0", "0">>]

\* A call of generate_module_id: the ID it returns, or the failure of
\* cirq.to_json, which nothing in lines 39-44 catches.
IdOutcome(c) ==
    IF Serializable(c)
    THEN [ok |-> TRUE, error |-> "none", value |-> generate_module_id(c)]
    ELSE [ok |-> FALSE, error |-> "SerializationFailure", value |-> <<>>]

\* ------------------------------------------------------- circuit elements

\* _Register.__init__: its one statement is the annotation
\* "self._register: register", which assigns nothing, so the instance has no
\* attribute _register (the field below is a placeholder that is never read).
_Register(register) ==
    [cls |-> "_Register", attrs |-> {}, _register |-> {}, _operation |-> NoOp]

\* An _Operation whose constructor loses its argument.
_OperationDropped(operation) ==
    [cls |-> "_Operation", attrs |-> {"_operation"}, _register |-> {},
     _operation |-> NoOp]

\* _Operation.__init__: self._operation = operation.
_Operation(operation) ==
    [cls |-> "_Operation", attrs |-> {"_operation"}, _register |-> {},
     _operation |-> operation]

\* _CircuitElement.from_element_list: [cls(elem) for elem in elements].
from_element_list(cls, elements) ==
    [i \in DOMAIN elements |->
        IF cls = "_Register" THEN _Register(elements[i]) ELSE _Operation(elements[i])]

\* ----------------------------------------------------------------- CirqModule

\* CirqModule.__init__.
CirqModuleInit(name, module, num_qubits, elements) ==
    [name |-> name, module |-> module, num_qubits |-> num_qubits,
     elements |-> elements]

NoModule == CirqModuleInit(<<>>, 0, 0, <<>>)

\* from_circuit, lines 104-111: one _Register, then one _Operation per operation.
Elements(c) ==
    <<_Register(all_qubits(c))>> \o from_element_list("_Operation", all_operations(c))

\* A module created in the context the caller's module lives in.
NewModuleSharedContext(ctxs, c) ==
    [context |-> 1, source_filename |-> generate_module_id(c)]

\* pyqir.Module(Context(), generate_module_id(circuit)): a module in a context
\* that did not exist before (contexts are numbered in order of creation).
NewModule(ctxs, c) == [context |-> ctxs + 1, source_filename |-> generate_module_id(c)]

\* Lines 113-114 without the test of module: a module is always created.
ModuleAlwaysNew(hs, ctxs, h, c) ==
    [handles |-> Append(hs, NewModule(ctxs, c)), contexts |-> ctxs + 1,
     module |-> Len(hs) + 1, generated |-> TRUE]

\* Lines 113-114 with the ID computed first and dropped when a module is given.
ModuleIdThenDiscard(hs, ctxs, h, c) ==
    IF h = 0
    THEN [handles |-> Append(hs, NewModule(ctxs, c)), contexts |-> ctxs + 1,
          module |-> Len(hs) + 1, generated |-> TRUE]
    ELSE [handles |-> hs, contexts |-> ctxs, module |-> h, generated |-> TRUE]

\* Lines 113-114 with the generated ID written into the module that is given.
ModuleRenamed(hs, ctxs, h, c) ==
    IF h = 0
    THEN [handles |-> Append(hs, NewModule(ctxs, c)), contexts |-> ctxs + 1,
          module |-> Len(hs) + 1, generated |-> TRUE]
    ELSE [handles |-> [hs EXCEPT ![h].source_filename = generate_module_id(c)],
          contexts |-> ctxs, module |-> h, generated |-> TRUE]

\* Lines 113-114: the module the CirqModule is built around, the pyqir modules
\* and contexts in existence afterwards, and whether generate_module_id was
\* called (it is called in the branch of "module is None" only).
ModuleOrNew(hs, ctxs, h, c) ==
    IF h = 0
    THEN [handles |-> Append(hs, NewModule(ctxs, c)), contexts |-> ctxs + 1,
          module |-> Len(hs) + 1, generated |-> TRUE]
    ELSE [handles |-> hs, contexts |-> ctxs, module |-> h, generated |-> FALSE]

\* name=module.source_filename
ModuleName(hs, h) == hs[h].source_filename

RECURSIVE SumOfLens(_)
SumOfLens(ops) == IF ops = <<>> THEN 0 ELSE Len(Head(ops).qubits) + SumOfLens(Tail(ops))

\* A count of the qubit slots of the operations: a shared qubit counts twice.
NumQubitsPerOperation(c) == SumOfLens(c.ops)

\* num_qubits=len(circuit.all_qubits())
NumQubits(c) == Cardinality(all_qubits(c))

\* -------------------------------------------------------------------- state

VARIABLES
    circuit,    \* circuit[k]: the cirq.Circuit of conversion k: [id, ops]
    contexts,   \* number of pyqir Contexts created so far
    handles,    \* the pyqir Modules in existence: [context, source_filename]
    ids,        \* ids[k]: outcomes of the generate_module_id(circuit[k]) calls
    built,      \* built[k]: how the CirqModule of conversion k came to be
    fexc,       \* fexc[k]: the exception that left the call that was to build it
    genid,      \* genid[k]: whether from_circuit called generate_module_id
    harg,       \* harg[k]: the module argument of from_circuit (0 is None)
    cmod,       \* cmod[k]: the CirqModule of conversion k
    pc,         \* pc[k]: the phase of cmod[k].accept(visitor)
    idx,        \* idx[k]: position of the element loop of accept
    calls,      \* calls[k]: the calls the visitor of conversion k has received
    exc,        \* exc[k]: the exception that left accept
    prev        \* prev[k]: the traversal before the current one, if any

vars == <<circuit, contexts, handles, ids, built, fexc, genid, harg, cmod, pc, idx,
          calls, exc, prev>>

\* No earlier traversal.
NoRun == [ran |-> FALSE, calls |-> <<>>, pc |-> "idle", exc |-> "none"]

\* The name of the IR module the caller built beforehand.
CallerName == <<"b", "e", "l", "l">>

Init ==
    /\ \E c1 \in {CircuitValue(1, ops) : ops \in Circuits} \cup {NoneValue(1)} :
       \E c2 \in {[c1 EXCEPT !.id = 2], CircuitValue(2, Bell)} :
          circuit = [k \in Convs |-> IF k = 1 THEN c1 ELSE c2]
    /\ contexts = 1
    /\ handles = <<[context |-> 1, source_filename |-> CallerName]>>
    /\ ids = [k \in Convs |-> {}]
    /\ built = [k \in Convs |-> "none"]
    /\ fexc = [k \in Convs |-> "none"]
    /\ genid = [k \in Convs |-> FALSE]
    /\ harg = [k \in Convs |-> 0]
    /\ cmod = [k \in Convs |-> NoModule]
    /\ pc = [k \in Convs |-> "idle"]
    /\ idx = [k \in Convs |-> 0]
    /\ calls = [k \in Convs |-> <<>>]
    /\ exc = [k \in Convs |-> "none"]
    /\ prev = [k \in Convs |-> NoRun]

\* ------------------------------------------------------------------ actions

\* A caller evaluates generate_module_id(circuit[k]).
GenerateModuleId(k) ==
    /\ ids' = [ids EXCEPT ![k] = @ \cup {IdOutcome(circuit[k])}]
    /\ UNCHANGED <<circuit, contexts, handles, built, fexc, genid, harg, cmod, pc, idx,
                   calls, exc, prev>>

\* CirqModule.from_circuit(circuit[k], module=h), h = 0 for None.
FromCircuit(k, h) ==
    /\ built[k] = "none"
    /\ harg' = [harg EXCEPT ![k] = h]
    /\ IF circuit[k].kind = "None"
       THEN \* line 107: None has no method all_qubits
            /\ built' = [built EXCEPT ![k] = "raised"]
            /\ fexc' = [fexc EXCEPT ![k] = "AttributeError"]
            /\ UNCHANGED <<contexts, handles, cmod, genid>>
       ELSE LET m == ModuleOrNew(handles, contexts, h, circuit[k])
                id == IdOutcome(circuit[k])
            IN  /\ genid' = [genid EXCEPT ![k] = m.generated]
                /\ IF m.generated /\ ~id.ok
                   THEN \* generate_module_id raises out of from_circuit
                        /\ built' = [built EXCEPT ![k] = "raised"]
                        /\ fexc' = [fexc EXCEPT ![k] = id.error]
                        /\ UNCHANGED <<contexts, handles, cmod>>
                   ELSE /\ handles' = m.handles
                        /\ contexts' = m.contexts
                        /\ cmod' = [cmod EXCEPT ![k] =
                              CirqModuleInit(ModuleName(m.handles, m.module), m.module,
                                             NumQubits(circuit[k]), Elements(circuit[k]))]
                        /\ built' = [built EXCEPT ![k] = "from_circuit"]
                        /\ UNCHANGED fexc
    /\ UNCHANGED <<circuit, ids, pc, idx, calls, exc, prev>>

\* A caller builds a CirqModule with the constructor, around the IR module it
\* holds, from the operation elements of the batch constructor alone.
Construct(k) ==
    /\ built[k] = "none"
    /\ circuit[k].kind = "Circuit"
    /\ cmod' = [cmod EXCEPT ![k] =
          CirqModuleInit(handles[1].source_filename, 1, NumQubits(circuit[k]),
                         from_element_list("_Operation", all_operations(circuit[k])))]
    /\ built' = [built EXCEPT ![k] = "init"]
    /\ UNCHANGED <<circuit, contexts, handles, ids, fexc, genid, harg, pc, idx, calls,
                   exc, prev>>

\* A boundary check that lets every value through.
IsCircuitAny(c) == TRUE

\* The boundary check of the conversion entry point: the input is a circuit.
IsCircuit(c) == c.kind = "Circuit"

\* cirq_to_qir(circuit[k]): the entry point raises TypeError on an input that
\* is no circuit, before it builds anything; otherwise it builds the
\* CirqModule with from_circuit and no module of its own.
CirqToQir(k) ==
    /\ built[k] = "none"
    /\ IF IsCircuit(circuit[k])
       THEN FromCircuit(k, 0)
       ELSE /\ built' = [built EXCEPT ![k] = "raised"]
            /\ fexc' = [fexc EXCEPT ![k] = "TypeError"]
            /\ UNCHANGED <<circuit, contexts, handles, ids, genid, harg, cmod, pc, idx,
                           calls, exc, prev>>

\* One call of a visitor method, as the recording visitor sees it.
Call(method, module, register, operation) ==
    [method |-> method, module |-> module, register |-> register,
     operation |-> operation, raised |-> FALSE]

\* An accept that starts over when the visitor raises.
AfterCallRestart(ok, next) == IF ok THEN next ELSE "idle"

\* An accept that catches what the visitor raises and carries on.
AfterCallSwallowed(ok, next) == next

\* accept has no try statement: a call that raises ends the traversal.
AfterCall(ok, next) == IF ok THEN next ELSE "raised"

\* One recording shared by the visitors of all conversions.
VisitShared(k, call, ok, next, nextidx) ==
    /\ calls' = [j \in Convs |-> Append(calls[j], [call EXCEPT !.raised = ~ok])]
    /\ pc' = [pc EXCEPT ![k] = IF ok THEN next ELSE "raised"]
    /\ idx' = [idx EXCEPT ![k] = IF ok THEN nextidx ELSE @]
    /\ exc' = [exc EXCEPT ![k] = IF ok THEN @ ELSE "VisitorError"]

\* The visitor receives the call and returns (ok) or raises.
Visit(k, call, ok, next, nextidx) ==
    /\ calls' = [calls EXCEPT ![k] = Append(@, [call EXCEPT !.raised = ~ok])]
    /\ pc' = [pc EXCEPT ![k] = AfterCall(ok, next)]
    /\ idx' = [idx EXCEPT ![k] = IF ok THEN nextidx ELSE @]
    /\ exc' = [exc EXCEPT ![k] = IF ok THEN @ ELSE "VisitorError"]

\* A loop that leaves for record_output after its first element.
AfterElementEarly(k, i) == "record"

\* Where accept goes once the element at position i is done.
AfterElement(k, i) == IF i >= Len(cmod[k].elements) THEN "record" ELSE "elements"

\* accept, line 123: visitor.visit_cirq_module(self).
VisitCirqModule(k) ==
    /\ built[k] \in {"from_circuit", "init"}
    /\ pc[k] = "idle"
    /\ \E ok \in BOOLEAN :
          Visit(k, Call("visit_cirq_module", k, {}, NoOp), ok, AfterElement(k, 0), 1)
    /\ UNCHANGED <<circuit, contexts, handles, ids, built, fexc, genid, harg, cmod, prev>>

\* accept, lines 124-125, on a _Register: visitor.visit_register(self._register).
RegisterAccept(k) ==
    /\ pc[k] = "elements"
    /\ LET e == cmod[k].elements[idx[k]]
       IN  /\ e.cls = "_Register"
           /\ IF "_register" \in e.attrs
              THEN \E ok \in BOOLEAN :
                     Visit(k, Call("visit_register", 0, e._register, NoOp), ok,
                           AfterElement(k, idx[k]), idx[k] + 1)
              ELSE \* reading self._register raises AttributeError
                   /\ pc' = [pc EXCEPT ![k] = "raised"]
                   /\ exc' = [exc EXCEPT ![k] = "AttributeError"]
                   /\ UNCHANGED <<idx, calls>>
    /\ UNCHANGED <<circuit, contexts, handles, ids, built, fexc, genid, harg, cmod, prev>>

\* accept, lines 124-125, on an _Operation: visitor.visit_operation(self._operation).
OperationAccept(k) ==
    /\ pc[k] = "elements"
    /\ LET e == cmod[k].elements[idx[k]]
       IN  /\ e.cls = "_Operation"
           /\ \E ok \in BOOLEAN :
                 Visit(k, Call("visit_operation", 0, {}, e._operation), ok,
                       AfterElement(k, idx[k]), idx[k] + 1)
    /\ UNCHANGED <<circuit, contexts, handles, ids, built, fexc, genid, harg, cmod, prev>>

\* accept, line 126: visitor.record_output(self).
RecordOutput(k) ==
    /\ pc[k] = "record"
    /\ \E ok \in BOOLEAN :
          Visit(k, Call("record_output", k, {}, NoOp), ok, "finalize", idx[k])
    /\ UNCHANGED <<circuit, contexts, handles, ids, built, fexc, genid, harg, cmod, prev>>

\* An accept that has used up the element list by the time it is through.
ModuleCleared(m) == [m EXCEPT !.elements = <<>>]

\* The CirqModule as accept leaves it: lines 122-127 assign to no attribute of
\* self and iterate over self._elements without taking anything out of it.
ModuleAfterAccept(m) == m

\* accept, line 127: visitor.finalize(), after which accept returns.
Finalize(k) ==
    /\ pc[k] = "finalize"
    /\ \E ok \in BOOLEAN :
          Visit(k, Call("finalize", 0, {}, NoOp), ok, "done", idx[k])
    /\ cmod' = [cmod EXCEPT ![k] = ModuleAfterAccept(@)]
    /\ UNCHANGED <<circuit, contexts, handles, ids, built, fexc, genid, harg, prev>>

Next ==
    \E k \in Convs :
        \/ GenerateModuleId(k)
        \/ \E h \in 0..Len(handles) : FromCircuit(k, h)
        \/ CirqToQir(k)
        \/ Construct(k)
        \/ VisitCirqModule(k)
        \/ RegisterAccept(k)
        \/ OperationAccept(k)
        \/ RecordOutput(k)
        \/ Finalize(k)

Spec == Init /\ [][Next]_vars

\* The calls the element loop of accept makes on the elements es when it runs
\* on its own with a visitor that does not fail, and whether it gets through.
RECURSIVE ElementCalls(_)
ElementCalls(es) ==
    IF es = <<>> THEN [calls |-> <<>>, ok |-> TRUE]
    ELSE LET e == Head(es)
         IN  IF e.cls = "_Register" /\ "_register" \notin e.attrs
             THEN [calls |-> <<>>, ok |-> FALSE]
             ELSE LET rest == ElementCalls(Tail(es))
                      call == IF e.cls = "_Register"
                              THEN Call("visit_register", 0, e._register, NoOp)
                              ELSE Call("visit_operation", 0, {}, e._operation)
                  IN  [calls |-> <<call>> \o rest.calls, ok |-> rest.ok]

\* The calls of m.accept(visitor), m the CirqModule of conversion k, run from
\* start to end with nothing else going on and a visitor that does not fail.
AcceptAlone(k, m) ==
    LET r == ElementCalls(m.elements)
    IN  <<Call("visit_cirq_module", k, {}, NoOp)>> \o r.calls
        \o IF r.ok
           THEN <<Call("record_output", k, {}, NoOp), Call("finalize", 0, {}, NoOp)>>
           ELSE <<>>

\* The caller of a traversal that ended without a failure of its visitor calls
\* cmod[k].accept again, with a fresh recording visitor.
AcceptAgain(k) ==
    /\ pc[k] \in {"done", "raised"}
    /\ \A i \in DOMAIN calls[k] : ~calls[k][i].raised
    /\ ~prev[k].ran
    /\ prev' = [prev EXCEPT ![k] =
          [ran |-> TRUE, calls |-> calls[k], pc |-> pc[k], exc |-> exc[k]]]
    /\ pc' = [pc EXCEPT ![k] = "idle"]
    /\ idx' = [idx EXCEPT ![k] = 0]
    /\ calls' = [calls EXCEPT ![k] = <<>>]
    /\ exc' = [exc EXCEPT ![k] = "none"]
    /\ UNCHANGED <<circuit, contexts, handles, ids, built, fexc, genid, harg, cmod>>

\* The conversions, with callers that may traverse a module a second time.
SpecTwice == Init /\ [][Next \/ \E k \in Convs : AcceptAgain(k)]_vars

\* A step of accept after its first visitor call.
AcceptContinues(k) ==
    RegisterAccept(k) \/ OperationAccept(k) \/ RecordOutput(k) \/ Finalize(k)

\* accept is a synchronous call: once entered it runs on, every visitor call
\* returning or raising.
FairSpec == Spec /\ \A k \in Convs : WF_vars(AcceptContinues(k))

\* -------------------------------------------------------------- properties

\* The traversal of conversion k has ended (accept returned or raised).
Ended(k) == pc[k] \in {"done", "raised"}

\* No call the visitor of conversion k received has raised.
VisitorNeverRaised(k) == \A i \in DOMAIN calls[k] : ~calls[k][i].raised

\* The calls the traversal of from_circuit(circuit[k]) is to make, in order.
Canonical(k) ==
    <<Call("visit_cirq_module", k, {}, NoOp),
      Call("visit_register", 0, all_qubits(circuit[k]), NoOp)>>
    \o [i \in DOMAIN circuit[k].ops |-> Call("visit_operation", 0, {}, circuit[k].ops[i])]
    \o <<Call("record_output", k, {}, NoOp), Call("finalize", 0, {}, NoOp)>>

\* C1: when the visitor never raises, the traversal of a module built by
\* from_circuit ends by returning, and the visitor has received exactly
\* visit_cirq_module, visit_register, one visit_operation per operation in
\* circuit order, record_output and finalize, in that order.
C1_ExactCallSequence ==
    \A k \in Convs :
        (built[k] = "from_circuit" /\ Ended(k) /\ VisitorNeverRaised(k))
            => (pc[k] = "done" /\ calls[k] = Canonical(k))

\* The accept of the _Register element of from_circuit(circuit[k]) has run.
RegisterAccepted(k) ==
    /\ built[k] = "from_circuit"
    /\ \/ idx[k] > 1
       \/ pc[k] = "raised" /\ idx[k] = 1

\* C2: once accept has run on the _Register built from the qubit set Q, the
\* visitor has received visit_register(Q) from it, once, and accept has not
\* failed on its own account.
C2_RegisterVisited ==
    \A k \in Convs :
        RegisterAccepted(k) =>
            /\ exc[k] # "AttributeError"
            /\ Len(calls[k]) >= 2
            /\ calls[k][2].method = "visit_register"
            /\ calls[k][2].register = all_qubits(circuit[k])
            /\ Cardinality({i \in DOMAIN calls[k] :
                             calls[k][i].method = "visit_register"}) = 1

\* C3: the elements of from_circuit(C) are 1 + n in number; the first is a
\* _Register holding C.all_qubits(), and element i + 1 is an _Operation holding
\* the i-th operation of C.
C3_ElementSequence ==
    \A k \in Convs :
        built[k] = "from_circuit" =>
            LET es == cmod[k].elements
                ops == circuit[k].ops
            IN  /\ Len(es) = 1 + Len(ops)
                /\ es[1].cls = "_Register"
                /\ "_register" \in es[1].attrs
                /\ es[1]._register = all_qubits(circuit[k])
                /\ \A i \in DOMAIN ops :
                      /\ es[i + 1].cls = "_Operation"
                      /\ "_operation" \in es[i + 1].attrs
                      /\ es[i + 1]._operation = ops[i]

\* C4: a visitor call that raises is the last call of its traversal, and the
\* traversal has ended with that failure, not by returning.
C4_VisitorFailureAborts ==
    \A k \in Convs :
        \A i \in DOMAIN calls[k] :
            calls[k][i].raised =>
                /\ i = Len(calls[k])
                /\ pc[k] = "raised"
                /\ exc[k] = "VisitorError"

\* A visit_operation call raised while elements were still to be visited.
C4_Witness ==
    \E k \in Convs :
        /\ pc[k] = "raised"
        /\ exc[k] = "VisitorError"
        /\ calls[k] # <<>>
        /\ calls[k][Len(calls[k])].method = "visit_operation"
        /\ calls[k][Len(calls[k])].raised
        /\ idx[k] < Len(cmod[k].elements)

\* C5: from_circuit(C, module=h) returns a CirqModule whose module is h and
\* whose name is the name stored in h, which is not generate_module_id(C)
\* whenever the two differ.
C5_SuppliedHandleNameWins ==
    \A k \in Convs :
        (built[k] = "from_circuit" /\ harg[k] # 0) =>
            /\ cmod[k].module = harg[k]
            /\ cmod[k].name = handles[harg[k]].source_filename
            /\ (handles[harg[k]].source_filename # generate_module_id(circuit[k])
                   => cmod[k].name # generate_module_id(circuit[k]))

\* A module built around the caller's module, whose name is not the circuit's ID.
C5_Witness ==
    \E k \in Convs :
        /\ built[k] = "from_circuit"
        /\ harg[k] = 1
        /\ Serializable(circuit[k])
        /\ cmod[k].name = CallerName
        /\ cmod[k].name # generate_module_id(circuit[k])

\* C6: from_circuit(C) without a handle returns a CirqModule around a pyqir
\* module that is not the caller's and no other conversion's fresh module, in
\* a context no other pyqir module lives in; the CirqModule's name and the
\* name stored in the pyqir module are both generate_module_id(C).
C6_FreshModuleNamedById ==
    \A k \in Convs :
        (built[k] = "from_circuit" /\ harg[k] = 0) =>
            LET m == cmod[k].module
            IN  /\ m \in DOMAIN handles
                /\ m # 1
                /\ \A j \in Convs \ {k} :
                      (built[j] = "from_circuit" /\ harg[j] = 0) => cmod[j].module # m
                /\ handles[m].context <= contexts
                /\ \A n \in DOMAIN handles \ {m} : handles[n].context # handles[m].context
                /\ cmod[k].name = generate_module_id(circuit[k])
                /\ handles[m].source_filename = generate_module_id(circuit[k])

\* Both conversions built their module without a handle.
C6_Witness ==
    \A k \in Convs :
        /\ built[k] = "from_circuit"
        /\ harg[k] = 0
        /\ cmod[k].name = handles[cmod[k].module].source_filename

\* C7: for a circuit without operations, from_circuit returns a CirqModule of
\* one element and num_qubits 0, and its traversal with a visitor that never
\* raises returns after visit_cirq_module, visit_register, record_output and
\* finalize, once each and in that order.
C7_EmptyCircuitFourPhases ==
    \A k \in Convs :
        (built[k] = "from_circuit" /\ circuit[k].ops = <<>>) =>
            /\ Len(cmod[k].elements) = 1
            /\ cmod[k].num_qubits = 0
            /\ (Ended(k) /\ VisitorNeverRaised(k)) =>
                  /\ pc[k] = "done"
                  /\ Len(calls[k]) = 4
                  /\ calls[k][1].method = "visit_cirq_module"
                  /\ calls[k][2].method = "visit_register"
                  /\ calls[k][3].method = "record_output"
                  /\ calls[k][4].method = "finalize"

\* The qubits some operation of the circuit acts on, counted one by one.
DistinctQubits(c) ==
    {q \in 0..9 : \E i \in DOMAIN c.ops : \E j \in DOMAIN c.ops[i].qubits :
                     c.ops[i].qubits[j] = q}

\* C8: the num_qubits of from_circuit(C), with or without a handle, is the
\* number of distinct qubits of C.
C8_NumQubitsIsCardinality ==
    \A k \in Convs :
        built[k] = "from_circuit" =>
            cmod[k].num_qubits = Cardinality(DistinctQubits(circuit[k]))

\* Two modules of the Bell circuit, whose operations share qubit 0, one built
\* around the caller's module and one without a handle.
C8_Witness ==
    /\ \A k \in Convs : built[k] = "from_circuit" /\ circuit[k].ops = Bell
                        /\ cmod[k].num_qubits = 2
    /\ harg[1] # 0
    /\ harg[2] = 0

\* The IDs generate_module_id returned for circuit[k], with the IDs it gave
\* to the modules from_circuit created.
IdsOf(k) ==
    {r.value : r \in {x \in ids[k] : x.ok}}
    \cup {handles[cmod[j].module].source_filename :
            j \in {i \in {k} : built[i] = "from_circuit" /\ harg[i] = 0}}

\* C9: an ID is "circuit-" followed by exactly 7 alphanumeric characters, the
\* first 7 of the hex digest of the serialized circuit.
C9_IdFormat ==
    \A k \in Convs :
        IdsOf(k) # {} =>
            LET digest == hash_hex(circuit[k])
            IN  \A id \in IdsOf(k) :
                    /\ Len(id) = Len(IdPrefix) + 7
                    /\ SubSeq(id, 1, Len(IdPrefix)) = IdPrefix
                    /\ \A i \in 1..7 :
                          /\ id[Len(IdPrefix) + i] \in AlnumChars
                          /\ id[Len(IdPrefix) + i] = digest[i]

\* An ID was returned for a circuit with operations.
C9_Witness ==
    \E k \in Convs :
        /\ circuit[k].ops # <<>>
        /\ \E r \in ids[k] : r.ok /\ Len(r.value) = 15

\* The outcomes of generate_module_id agree on structurally equal circuits.
SameContentSameId ==
    \A j, k \in Convs :
        (circuit[j].kind = circuit[k].kind /\ circuit[j].ops = circuit[k].ops) =>
            \A r \in ids[j] : \A t \in ids[k] : r = t

\* A generate_module_id call changes nothing but the caller's record of it.
IdCallChangesNothing ==
    (ids' # ids) => UNCHANGED <<circuit, contexts, handles, built, fexc, genid, harg,
                                cmod, pc, idx, calls, exc, prev>>

\* C10: generate_module_id depends on the circuit's content alone: calls on
\* the same circuit and on structurally equal circuits return the same ID, and
\* a call changes no circuit, pyqir module, CirqModule or traversal.
C10_IdIsPureFunctionOfContent == [] SameContentSameId /\ [][IdCallChangesNothing]_vars

\* Two distinct circuit objects of equal content got an ID each, and a circuit
\* of other content got another ID.
C10_Witness ==
    /\ circuit[1].ops = circuit[2].ops
    /\ circuit[1].ops # <<>>
    /\ \E r \in ids[1] : r.ok
    /\ \E r \in ids[2] : r.ok
    /\ generate_module_id(circuit[1]) # generate_module_id(CircuitValue(1, <<>>))

\* The visit_operation calls the visitor of conversion k has received, in order.
OperationCalls(k) == SelectSeq(calls[k], LAMBDA c : c.method = "visit_operation")

\* The number of elements of cmod[k] whose accept has been called.
ElementsAccepted(k) ==
    IF pc[k] = "idle" THEN 0
    ELSE IF pc[k] = "elements" THEN idx[k] - 1
    ELSE IF pc[k] = "raised" /\ idx[k] <= Len(cmod[k].elements) THEN idx[k]
    ELSE Len(cmod[k].elements)

\* C11: the accept of the _Operation built from operation o calls
\* visit_operation(o) once and no other visitor method: in a module of
\* operation elements the visitor has one visit_operation call per accepted
\* element, the i-th with the i-th operation, and no visit_register call.
C11_OperationVisited ==
    \A k \in Convs :
        built[k] = "init" =>
            /\ Len(OperationCalls(k)) = ElementsAccepted(k)
            /\ \A i \in DOMAIN OperationCalls(k) :
                  /\ OperationCalls(k)[i].operation = circuit[k].ops[i]
                  /\ OperationCalls(k)[i].module = 0
                  /\ OperationCalls(k)[i].register = {}
            /\ \A i \in DOMAIN calls[k] : calls[k][i].method # "visit_register"
            /\ Len(calls[k]) <= ElementsAccepted(k) + 3

\* Both operation elements of a Bell module have been accepted.
C11_Witness ==
    \E k \in Convs :
        /\ built[k] = "init"
        /\ circuit[k].ops = Bell
        /\ pc[k] = "record"
        /\ Len(OperationCalls(k)) = 2

\* The conversions whose from_circuit created a pyqir module of its own.
FreshBuilt == {k \in Convs : built[k] = "from_circuit" /\ harg[k] = 0}

\* C12: for a circuit cirq.to_json cannot serialize, generate_module_id ends
\* with the serialization failure and returns no ID; from_circuit without a
\* handle ends with that same failure, builds no CirqModule and creates no
\* pyqir module under a substitute name.
C12_SerializationFailurePropagates ==
    /\ Len(handles) = 1 + Cardinality(FreshBuilt)
    /\ \A k \in Convs :
          (circuit[k].kind = "Circuit" /\ ~Serializable(circuit[k])) =>
              /\ \A r \in ids[k] :
                    ~r.ok /\ r.error = "SerializationFailure" /\ r.value = <<>>
              /\ k \notin FreshBuilt
              /\ built[k] = "raised" =>
                    /\ harg[k] = 0
                    /\ fexc[k] = "SerializationFailure"
                    /\ cmod[k] = NoModule

\* Both generate_module_id and from_circuit have failed on a circuit with a
\* custom gate.
C12_Witness ==
    \E k \in Convs :
        /\ ~Serializable(circuit[k])
        /\ built[k] = "raised"
        /\ fexc[k] = "SerializationFailure"
        /\ ids[k] # {}

\* A cirq_to_qir call on None ends with TypeError and builds nothing.
EntryRejectsNone ==
    \A k \in Convs :
        (circuit[k].kind = "None" /\ CirqToQir(k)) =>
            /\ built'[k] = "raised"
            /\ fexc'[k] = "TypeError"
            /\ cmod'[k] = NoModule
            /\ handles' = handles
            /\ contexts' = contexts

\* No CirqModule was ever built from None.
NoModuleFromNone ==
    \A k \in Convs :
        circuit[k].kind = "None" => (cmod[k] = NoModule /\ built[k] \in {"none", "raised"})

\* C13: building a module from an input that is no circuit (None) fails with
\* a type error, and no CirqModule is built before or after the failure.
C13_NoneIsTypeError == [] NoModuleFromNone /\ [][EntryRejectsNone]_vars

\* cirq_to_qir(None) has raised TypeError.
C13_Witness ==
    \E k \in Convs :
        /\ circuit[k].kind = "None"
        /\ built[k] = "raised"
        /\ fexc[k] = "TypeError"
        /\ cmod[k] = NoModule

\* C14: when a handle is supplied to from_circuit, generate_module_id is
\* still called for the circuit, and its result is dropped for the name the
\* handle stores.
C14_IdGeneratedThenDiscarded ==
    \A k \in Convs :
        (built[k] = "from_circuit" /\ harg[k] # 0) =>
            /\ genid[k]
            /\ cmod[k].name = handles[harg[k]].source_filename

\* C14, amended: when a handle is supplied to from_circuit, generate_module_id
\* is not called: a circuit is converted whether or not it can be serialized,
\* and the name is the one the handle stores.  Without a handle it is called.
C14_IdNotGeneratedWithHandle ==
    \A k \in Convs :
        /\ (built[k] \in {"from_circuit", "raised"} /\ harg[k] # 0) =>
              /\ ~genid[k]
              /\ fexc[k] # "SerializationFailure"
              /\ circuit[k].kind = "Circuit" =>
                    /\ built[k] = "from_circuit"
                    /\ cmod[k].name = handles[harg[k]].source_filename
        /\ (built[k] = "from_circuit" /\ harg[k] = 0) => genid[k]

\* A circuit with a custom gate was converted around a supplied handle.
C14_Witness ==
    \E k \in Convs :
        /\ built[k] = "from_circuit"
        /\ harg[k] # 0
        /\ ~Serializable(circuit[k])
        /\ ~genid[k]

\* A step of the traversal of conversion k leaves its CirqModule (name,
\* module, num_qubits, elements) and every pyqir module and context as it was.
AcceptKeepsModule ==
    \A k \in Convs :
        (pc'[k] # pc[k] \/ calls'[k] # calls[k] \/ idx'[k] # idx[k]) =>
            /\ cmod'[k] = cmod[k]
            /\ handles' = handles
            /\ contexts' = contexts

\* C15: accept leaves the name, num_qubits, module handle and element sequence
\* of its CirqModule unchanged, whether the traversal returns or aborts, and
\* changes no pyqir module itself.
C15_AcceptLeavesModuleUnchanged == [][AcceptKeepsModule]_vars

\* One traversal has returned and the other has aborted, each over a module
\* with elements.
C15_Witness ==
    /\ pc[1] = "done"
    /\ pc[2] = "raised"
    /\ \A k \in Convs : Len(cmod[k].elements) = 2 /\ cmod[k].num_qubits = 2

\* The call that builds (or fails to build) the CirqModule of conversion k
\* leaves every circuit and every pyqir module that existed as it was.
BuildKeepsInputs ==
    \A k \in Convs :
        (built[k] = "none" /\ built'[k] # "none") =>
            /\ circuit' = circuit
            /\ \A h \in DOMAIN handles :
                  h \in DOMAIN handles' /\ handles'[h] = handles[h]

\* C16: from_circuit leaves its inputs unchanged: the circuit keeps its qubits
\* and its operations in their order, and a supplied pyqir module keeps the
\* name it stores.
C16_FromCircuitLeavesInputsUnchanged == [][BuildKeepsInputs]_vars

\* A Bell circuit was converted around the caller's module, which still has
\* the caller's name and not the circuit's ID.
C16_Witness ==
    \E k \in Convs :
        /\ built[k] = "from_circuit"
        /\ harg[k] = 1
        /\ circuit[k] = CircuitValue(k, Bell)
        /\ handles[1].source_filename = CallerName
        /\ CallerName # generate_module_id(circuit[k])

\* How far a traversal over n elements is, at phase p and loop position i.
Progress(p, i, n) ==
    IF p = "idle" THEN 0
    ELSE IF p = "elements" THEN i
    ELSE IF p = "record" THEN n + 1
    ELSE IF p = "finalize" THEN n + 2
    ELSE n + 3

\* Every step of a traversal moves it forward, and none leaves an ended one.
AcceptMovesForward ==
    \A k \in Convs :
        (pc'[k] # pc[k] \/ idx'[k] # idx[k] \/ calls'[k] # calls[k]) =>
            /\ pc[k] \notin {"done", "raised"}
            /\ Progress(pc'[k], idx'[k], Len(cmod[k].elements))
                  > Progress(pc[k], idx[k], Len(cmod[k].elements))
            /\ Len(calls'[k]) <= Len(calls[k]) + 1

\* A traversal that is under way ends.
AcceptEnds ==
    \A k \in Convs : (pc[k] \in {"elements", "record", "finalize"}) ~> Ended(k)

\* C17: accept terminates: a traversal under way ends, by returning after
\* finalize or with a failure, and on the way it never goes back to an earlier
\* phase, repeats a call or stays between phases.
C17_AcceptTerminates == AcceptEnds /\ [][AcceptMovesForward]_vars

\* A traversal over two elements has returned after its five calls.
C17_Witness ==
    \E k \in Convs :
        /\ pc[k] = "done"
        /\ Len(cmod[k].elements) = 2
        /\ Len(calls[k]) = 5
        /\ calls[k][5].method = "finalize"

\* The calls as made, whether the visitor returned from them or raised.
CallsMade(k) == [i \in DOMAIN calls[k] |-> [calls[k][i] EXCEPT !.raised = FALSE]]

IsPrefix(s, t) == Len(s) <= Len(t) /\ SubSeq(t, 1, Len(s)) = s

\* The canonical sequence of the module of conversion k: that of
\* from_circuit(circuit[k]), or, for a module constructed from the operation
\* elements alone, the same without the register it was not given.
CanonicalOfModule(k) ==
    IF built[k] = "from_circuit"
    THEN Canonical(k)
    ELSE <<Call("visit_cirq_module", k, {}, NoOp)>>
         \o [i \in DOMAIN circuit[k].ops |->
                Call("visit_operation", 0, {}, circuit[k].ops[i])]
         \o <<Call("record_output", k, {}, NoOp), Call("finalize", 0, {}, NoOp)>>

\* C18: at every point of every traversal, aborted ones included, the calls
\* the visitor has received so far are a prefix of the canonical sequence of
\* the module: nothing out of order, nothing skipped, nothing twice.
C18_CallsArePrefixOfCanonical ==
    \A k \in Convs :
        cmod[k] # NoModule => IsPrefix(CallsMade(k), CanonicalOfModule(k))

\* A traversal over two operations was aborted by the visitor at the second,
\* while the other conversion's traversal of a from_circuit module has ended.
C18_Witness ==
    \E k, j \in Convs :
        /\ built[k] = "init" /\ pc[k] = "raised" /\ Len(calls[k]) = 3
        /\ calls[k][3].method = "visit_operation" /\ calls[k][3].raised
        /\ built[j] = "from_circuit" /\ Ended(j) /\ Len(calls[j]) = 1

\* Conversion k has been traversed twice, to the end, by visitors that did not
\* fail.
TraversedTwice(k) ==
    /\ prev[k].ran
    /\ Ended(k)
    /\ VisitorNeverRaised(k)
    /\ \A i \in DOMAIN prev[k].calls : ~prev[k].calls[i].raised

\* C19: two accepts in succession on one module, each with a fresh recording
\* visitor that does not fail, make the same calls with the same arguments and
\* end the same way.
C19_SecondTraversalSameCalls ==
    \A k \in Convs :
        TraversedTwice(k) =>
            /\ calls[k] = prev[k].calls
            /\ pc[k] = prev[k].pc
            /\ exc[k] = prev[k].exc

\* A module of two operation elements has been traversed to the end twice,
\* five calls each time.
C19_Witness ==
    \E k \in Convs :
        /\ TraversedTwice(k)
        /\ pc[k] = "done"
        /\ Len(cmod[k].elements) = 2
        /\ Len(calls[k]) = 5
        /\ Len(prev[k].calls) = 5

\* Both conversions were built by from_circuit without a module of the caller.
BothBuiltAfresh == \A k \in Convs : built[k] = "from_circuit" /\ harg[k] = 0

\* The two conversions have each their own IR module, context and elements,
\* and each visitor has received what it receives when its traversal is alone.
ConversionsApart ==
    BothBuiltAfresh =>
        /\ \A k, j \in Convs :
              k # j => /\ cmod[k].module # cmod[j].module
                       /\ handles[cmod[k].module].context
                             # handles[cmod[j].module].context
        /\ \A k \in Convs :
              /\ cmod[k].module > 1
              /\ handles[cmod[k].module].context > 1
              /\ cmod[k].elements = Elements(circuit[k])
              /\ IsPrefix(CallsMade(k), AcceptAlone(k, cmod[k]))
              /\ (Ended(k) /\ VisitorNeverRaised(k))
                    => calls[k] = AcceptAlone(k, cmod[k])

\* The module and traversal of conversion k are as they were.
ConversionUntouched(k) ==
    /\ cmod'[k] = cmod[k]
    /\ pc'[k] = pc[k]
    /\ idx'[k] = idx[k]
    /\ calls'[k] = calls[k]
    /\ exc'[k] = exc[k]

\* A step touches the module and traversal of one conversion at most.
OneConversionPerStep ==
    \A k, j \in Convs : k # j => ConversionUntouched(k) \/ ConversionUntouched(j)

\* C20: two conversions built by separate from_circuit calls without a module
\* of the caller share nothing: each has its own new context, IR module and
\* element list, no step of one touches the other, and however the two
\* traversals interleave each visitor receives the calls of its traversal alone.
C20_ConversionsIndependent == [] ConversionsApart /\ [][OneConversionPerStep]_vars

\* Two conversions of different circuits, built afresh, are both in the middle
\* of their traversals.
C20_Witness ==
    /\ BothBuiltAfresh
    /\ circuit[1].ops # circuit[2].ops
    /\ \A k \in Convs : pc[k] = "elements" /\ Len(calls[k]) = 1

====
